---------------------------- MODULE Spec2Model ----------------------------
(***************************************************************************)
(* Model of src/transformers/generation/stopping_criteria.py:              *)
(* StopStringCriteria, its precomputation (_stop_string_get_matching_      *)
(* positions, _stop_string_create_embedding_vec behind functools.lru_cache)*)
(* and its tensor matcher (__call__); and MaxLengthCriteria.               *)
(*                                                                         *)
(* A Python str is a sequence of characters; a character is a one-element  *)
(* name ("a", " ", "#"; the two word-start markers U+2581 and U+0120 are   *)
(* written "U+2581" and "U+0120").  A tensor is a function over its index  *)
(* ranges.  All tensor operations of StopStringCriteria.__call__ act on    *)
(* every batch row independently, so its model carries one row; the model  *)
(* of MaxLengthCriteria carries the batch.                                 *)
(***************************************************************************)
EXTENDS Integers, Sequences, FiniteSets, TLC

VARIABLES
    cache,          \* lru_cache of _stop_string_create_embedding_vec: entries, least recently used first
    body_runs,      \* per key: how often the body of _stop_string_create_embedding_vec has run
    crit,           \* the criteria instance (NoCrit before / without one)
    req,            \* the arguments of the last StopStringCriteria(...) call
    raised,         \* exception raised by the last constructor call ("none" if it returned)
    input_ids,      \* the token-id history of the row (of the batch, for MaxLengthCriteria)
    matched,        \* per stop string: string_matches of the last __call__
    is_done,        \* result of the last __call__ for the row
    pc,             \* per thread: position inside StopStringCriteria.__init__
    tkey,           \* per thread: the key it is constructing with
    tres,           \* per thread: the result its cached call returned
    inits,          \* number of constructor calls started
    warned          \* the messages logger.warning_once has emitted

vars == <<cache, body_runs, crit, req, raised, input_ids, matched, is_done, pc, tkey, tres, inits, warned>>

---------------------------------------------------------------------------
(* Python helpers *)

Min(a, b) == IF a <= b THEN a ELSE b

SetMax(S) == CHOOSE x \in S : \A y \in S : y <= x

\* s[::-1]
Reverse(s) == [k \in 1..Len(s) |-> s[Len(s) + 1 - k]]

\* s[lo:hi] for 0 <= lo (Python clamps both ends to the length)
Slice(s, lo, hi) == IF lo >= Min(hi, Len(s)) THEN <<>> ELSE SubSeq(s, lo + 1, Min(hi, Len(s)))

\* tok.startswith(stop)
startswith(tok, stop) == Len(stop) <= Len(tok) /\ SubSeq(tok, 1, Len(stop)) = stop

\* list(range(lo, hi))
range(lo, hi) == [k \in 1..(hi - lo) |-> lo + k - 1]

\* "".join(...) of a list of strings
RECURSIVE Concat(_)
Concat(ss) == IF ss = <<>> THEN <<>> ELSE ss[1] \o Concat(Tail(ss))

---------------------------------------------------------------------------
(* _stop_string_get_matching_positions *)

\* token[0] in ["▁", "Ġ"]: the first CHARACTER is compared; the elif compares
\* that one character with the two-character string "##", which no character equals.
_cleanup_token(token) ==
    IF token[1] \in {"U+2581", "U+0120"} THEN <<" ">> \o Tail(token)
    ELSE IF <<token[1]>> = <<"#", "#">> THEN SubSeq(token, 3, Len(token))
    ELSE token

\* _cleanup_token(token)[::-1]
reversed_filtered_token(token) == Reverse(_cleanup_token(token))

\* body of the loop over i: the slice of the reversed token that is compared
AlignTok(token, i) ==
    IF i < 0 THEN Slice(reversed_filtered_token(token), -i, Len(reversed_filtered_token(token)))
    ELSE reversed_filtered_token(token)

\* the value of i after "if i < 0: ... i = 0"
AlignIdx(i) == IF i < 0 THEN 0 ELSE i

\* stop = reversed_stop_string[i : i + len(tok)]
AlignStop(token, stop_string, i) ==
    Slice(Reverse(stop_string), AlignIdx(i), AlignIdx(i) + Len(AlignTok(token, i)))

\* if tok.startswith(stop)
AlignMatches(token, stop_string, i) ==
    startswith(AlignTok(token, i), AlignStop(token, stop_string, i))

\* for i in range(1 - len(token), len(stop_string))
AlignRange(token, stop_string) == range(1 - Len(token), Len(stop_string))

\* matching_positions after the loop
matching_positions(token, stop_string) ==
    SelectSeq(AlignRange(token, stop_string),
              LAMBDA i : AlignMatches(token, stop_string, i) /\ AlignIdx(i) # 0)

\* mutant of possible_end_lengths: only the first overlap length of a token is kept
possible_end_lengths_first_only(token, stop_string) ==
    LET sel == SelectSeq(AlignRange(token, stop_string),
                         LAMBDA i : AlignMatches(token, stop_string, i) /\ AlignIdx(i) = 0)
    IN  IF sel = <<>> THEN <<>>
        ELSE <<Min(Len(AlignTok(token, sel[1])), Len(AlignStop(token, stop_string, sel[1])))>>

\* possible_end_lengths after the loop
possible_end_lengths(token, stop_string) ==
    LET sel == SelectSeq(AlignRange(token, stop_string),
                         LAMBDA i : AlignMatches(token, stop_string, i) /\ AlignIdx(i) = 0)
    IN  [k \in 1..Len(sel) |->
            Min(Len(AlignTok(token, sel[k])), Len(AlignStop(token, stop_string, sel[k])))]

\* zip(token_list, reversed_filtered_token_list, tok_indices) stops at the shorter list
ZipLen(token_list, tok_indices) == Min(Len(token_list), Len(tok_indices))

\* token_valid_positions[stop_string]: {tok_idx: matching_positions}; only non-empty
\* lists are stored, and a later token with the same tok_idx overwrites an earlier one
PositionsDict(token_list, tok_indices, stop_string) ==
    LET has == {k \in 1..ZipLen(token_list, tok_indices) :
                    matching_positions(token_list[k], stop_string) # <<>>}
    IN  [d \in {tok_indices[k] : k \in has} |->
            matching_positions(token_list[SetMax({k \in has : tok_indices[k] = d})], stop_string)]

\* token_end_overlaps[stop_string]: {tok_idx: possible_end_lengths}, stored the same way
EndOverlapsDict(token_list, tok_indices, stop_string) ==
    LET has == {k \in 1..ZipLen(token_list, tok_indices) :
                    possible_end_lengths(token_list[k], stop_string) # <<>>}
    IN  [d \in {tok_indices[k] : k \in has} |->
            possible_end_lengths(token_list[SetMax({k \in has : tok_indices[k] = d})], stop_string)]

\* the keys of the two dicts: equal stop strings share one entry
StopStringSet(stop_strings) == {stop_strings[k] : k \in 1..Len(stop_strings)}

\* first value returned by _stop_string_get_matching_positions
token_valid_positions(token_list, tok_indices, stop_strings) ==
    [s \in StopStringSet(stop_strings) |-> PositionsDict(token_list, tok_indices, s)]

\* second value returned by _stop_string_get_matching_positions
token_end_overlaps(token_list, tok_indices, stop_strings) ==
    [s \in StopStringSet(stop_strings) |-> EndOverlapsDict(token_list, tok_indices, s)]

---------------------------------------------------------------------------
(* _stop_string_create_embedding_vec (the body under @lru_cache) *)

\* {len(val) for positions in d.values() for val in positions.values()}
ListLens(d) == {Len(d[s][i]) : <<s, i>> \in UNION {{<<s2, i2>> : i2 \in DOMAIN d[s2]} : s2 \in DOMAIN d}}

\* what a call returns: the tuple, or the exception it raises
Returned(vec, mvp, mvel) ==
    [raised |-> "none", gather_vec |-> vec, max_valid_positions |-> mvp, max_valid_end_lens |-> mvel]

Raise(exc) ==
    [raised |-> exc, gather_vec |-> <<>>, max_valid_positions |-> 0, max_valid_end_lens |-> 0]

\* vec_size = len(stop_strings) * (max_valid_positions + max_valid_end_lens) + 1
VecSize(stop_strings, mvp, mvel) == Len(stop_strings) * (mvp + mvel) + 1

\* the value gather_vec[row, col] holds after the three assignment loops; np.full
\* filled it with -1.  Columns [mvp*i, mvp*(i+1)) hold the valid positions of stop
\* string i, columns [mvp*S + mvel*i, ...) its end lengths, the last column len(token).
GatherCell(token_list, tok_indices, stop_strings, mvp, mvel, row, col) ==
    LET S    == Len(stop_strings)
        tvp  == token_valid_positions(token_list, tok_indices, stop_strings)
        teo  == token_end_overlaps(token_list, tok_indices, stop_strings)
        toks == {k \in 1..ZipLen(token_list, tok_indices) : tok_indices[k] = row}
    IN  IF col = VecSize(stop_strings, mvp, mvel) - 1
        THEN IF toks = {} \/ S = 0 THEN -1 ELSE Len(token_list[SetMax(toks)])
        ELSE IF col < mvp * S
        THEN LET i == col \div mvp
                 p == col % mvp
                 d == tvp[stop_strings[i + 1]]
             IN  IF row \in DOMAIN d /\ p < Len(d[row]) THEN d[row][p + 1] ELSE -1
        ELSE LET i == (col - mvp * S) \div mvel
                 e == (col - mvp * S) % mvel
                 d == teo[stop_strings[i + 1]]
             IN  IF row \in DOMAIN d /\ e < Len(d[row]) THEN d[row][e + 1] ELSE -1

\* rows of gather_vec: np.full((len(token_list), vec_size)); row r is written through
\* gather_vec[token_idx, ...], which needs token_idx < len(token_list)
RowsOk(token_list, tok_indices) ==
    \A k \in 1..ZipLen(token_list, tok_indices) : tok_indices[k] \in 0..(Len(token_list) - 1)

_stop_string_create_embedding_vec(token_list, tok_indices, stop_strings) ==
    LET tvp  == token_valid_positions(token_list, tok_indices, stop_strings)
        teo  == token_end_overlaps(token_list, tok_indices, stop_strings)
    IN  IF \E k \in 1..Len(token_list) : token_list[k] = <<>>
        THEN Raise("IndexError")              \* token[0] of an empty token
        ELSE IF ListLens(tvp) = {} \/ ListLens(teo) = {}
        THEN Raise("ValueError")              \* max() of an empty sequence
        ELSE IF stop_strings # <<>> /\ ~RowsOk(token_list, tok_indices)
        THEN Raise("IndexError")              \* gather_vec[token_idx, ...] out of bounds
        ELSE LET mvp  == SetMax(ListLens(tvp))
                 mvel == SetMax(ListLens(teo))
             IN  Returned([row \in 0..(Len(token_list) - 1) |->
                              [col \in 0..(VecSize(stop_strings, mvp, mvel) - 1) |->
                                  GatherCell(token_list, tok_indices, stop_strings, mvp, mvel, row, col)]],
                          mvp, mvel)

---------------------------------------------------------------------------
(* functools.lru_cache(8) around _stop_string_create_embedding_vec *)

\* @lru_cache(8): maxsize
CacheSize == 8

\* the cache key made of the positional arguments, compared by value
MakeKey(token_list, tok_indices, stop_strings) ==
    [token_list |-> token_list, tok_indices |-> tok_indices, stop_strings |-> stop_strings]

\* the wrapped function applied to a key
Body(key) == _stop_string_create_embedding_vec(key.token_list, key.tok_indices, key.stop_strings)

\* mutant of KeyMatches: the stop strings are left out of the comparison
KeyMatches_without_stop_strings(entry, key) ==
    /\ entry.key.token_list = key.token_list
    /\ entry.key.tok_indices = key.tok_indices

\* the cache entry that answers a call with this key
KeyMatches(entry, key) == entry.key = key

CacheIndex(c, key) == {i \in 1..Len(c) : KeyMatches(c[i], key)}

CacheHit(c, key) == CacheIndex(c, key) # {}

CachedResult(c, key) == c[CHOOSE i \in CacheIndex(c, key) : TRUE].result

\* a hit moves the entry to the most-recently-used end
Touch(c, key) ==
    LET i == CHOOSE j \in CacheIndex(c, key) : TRUE
    IN  SubSeq(c, 1, i - 1) \o SubSeq(c, i + 1, Len(c)) \o <<c[i]>>

\* after the wrapped function returned: the result is stored unless the key was added
\* meanwhile; a full cache drops its least recently used entry.  A raised exception
\* stores nothing.
Store(c, key, result) ==
    IF result.raised # "none" \/ CacheHit(c, key) THEN c
    ELSE IF Len(c) >= CacheSize THEN Append(Tail(c), [key |-> key, result |-> result])
    ELSE Append(c, [key |-> key, result |-> result])

\* one call of the cached function with nothing running in between
CachedCall(c, key) == IF CacheHit(c, key) THEN CachedResult(c, key) ELSE Body(key)

CacheAfter(c, key) == IF CacheHit(c, key) THEN Touch(c, key) ELSE Store(c, key, Body(key))

\* the run counter of the wrapped function's body
CountRun(runs, key) ==
    IF key \in DOMAIN runs THEN [runs EXCEPT ![key] = @ + 1] ELSE runs @@ (key :> 1)

RunsOf(runs, key) == IF key \in DOMAIN runs THEN runs[key] ELSE 0

---------------------------------------------------------------------------
(* StopStringCriteria.__init__ *)

NoCrit ==
    [token_list |-> <<>>, tok_indices |-> <<>>, stop_strings |-> <<>>, embedding_vec |-> <<>>,
     max_valid_positions |-> 0, max_valid_end_lens |-> 0, maximum_token_len |-> 0,
     num_stop_strings |-> 0, target_lens |-> <<>>]

\* the fields __init__ sets from the key and the tuple the cached call returned
StopStringCriteria(key, result) ==
    [token_list          |-> key.token_list,
     tok_indices         |-> key.tok_indices,
     stop_strings        |-> key.stop_strings,
     embedding_vec       |-> result.gather_vec,
     max_valid_positions |-> result.max_valid_positions,
     max_valid_end_lens  |-> result.max_valid_end_lens,
     maximum_token_len   |-> SetMax({Len(key.stop_strings[k]) : k \in 1..Len(key.stop_strings)}),
     num_stop_strings    |-> Len(key.stop_strings),
     target_lens         |-> [k \in 1..Len(key.stop_strings) |-> Len(key.stop_strings[k])]]

---------------------------------------------------------------------------
(* StopStringCriteria.__call__, for one row *)

\* mutant of Window: one token fewer than the longest stop string has characters
Window_one_short(self, ids) ==
    IF self.maximum_token_len <= 1 \/ Len(ids) <= self.maximum_token_len - 1 THEN ids
    ELSE SubSeq(ids, Len(ids) - self.maximum_token_len + 2, Len(ids))

\* input_ids[:, -self.maximum_token_len :]
Window(self, ids) ==
    IF self.maximum_token_len = 0 \/ Len(ids) <= self.maximum_token_len THEN ids
    ELSE SubSeq(ids, Len(ids) - self.maximum_token_len + 1, Len(ids))

\* torch.flip(input_ids, (1,))
flipped_ids(self, ids) == Reverse(Window(self, ids))

\* F.embedding(flipped_ids, self.embedding_vec)
embedded(self, ids) == [j \in 1..Len(flipped_ids(self, ids)) |-> self.embedding_vec[flipped_ids(self, ids)[j]]]

\* embedded[:, 1:, : max_valid_positions * num_stop_strings].unflatten(-1, (num_stop_strings, -1))
valid_positions(self, ids) ==
    [j \in 2..Len(flipped_ids(self, ids)) |->
        [s \in 1..self.num_stop_strings |->
            [p \in 1..self.max_valid_positions |->
                embedded(self, ids)[j][(s - 1) * self.max_valid_positions + p - 1]]]]

\* embedded[:, :1, max_valid_positions * num_stop_strings : -1].unflatten(-1, (num_stop_strings, -1))
end_lengths(self, ids) ==
    [s \in 1..self.num_stop_strings |->
        [e \in 1..self.max_valid_end_lens |->
            embedded(self, ids)[1][self.max_valid_positions * self.num_stop_strings
                                   + (s - 1) * self.max_valid_end_lens + e - 1]]]

\* embedded[:, 1:, None, -1:]: the last column
lengths(self, ids) ==
    [j \in 2..Len(flipped_ids(self, ids)) |->
        embedded(self, ids)[j][self.num_stop_strings * (self.max_valid_positions + self.max_valid_end_lens)]]

\* torch.cat([end_lengths, lengths], dim=1)
lengths_with_ends(self, ids) ==
    [j \in 1..Len(flipped_ids(self, ids)) |->
        [s \in 1..self.num_stop_strings |->
            [e \in 1..self.max_valid_end_lens |->
                IF j = 1 THEN end_lengths(self, ids)[s][e] ELSE lengths(self, ids)[j]]]]

RECURSIVE SumUpTo(_, _)
SumUpTo(f, j) == IF j = 0 THEN 0 ELSE f[j] + SumUpTo(f, j - 1)

\* lengths_with_ends.cumsum(dim=1)
cumsum(self, ids) ==
    LET lwe == lengths_with_ends(self, ids)
    IN  [j \in 1..Len(flipped_ids(self, ids)) |->
            [s \in 1..self.num_stop_strings |->
                [e \in 1..self.max_valid_end_lens |->
                    SumUpTo([i \in 1..j |-> lwe[i][s][e]], j)]]]

\* end_lengths > 0
initial_match(self, ids) ==
    [s \in 1..self.num_stop_strings |->
        [e \in 1..self.max_valid_end_lens |-> end_lengths(self, ids)[s][e] > 0]]

\* a comparison with the first valid position of the token only
later_match_first_position(self, ids) ==
    LET cs == cumsum(self, ids)
        vp == valid_positions(self, ids)
    IN  [j \in 2..Len(flipped_ids(self, ids)) |->
            [s \in 1..self.num_stop_strings |->
                [e \in 1..self.max_valid_end_lens |-> cs[j - 1][s][e] = vp[j][s][1]]]]

\* torch.any(cumsum[:, :-1, :, None] == valid_positions[:, :, :, :, None], axis=-2)
later_match(self, ids) ==
    LET cs == cumsum(self, ids)
        vp == valid_positions(self, ids)
    IN  [j \in 2..Len(flipped_ids(self, ids)) |->
            [s \in 1..self.num_stop_strings |->
                [e \in 1..self.max_valid_end_lens |->
                    \E p \in 1..self.max_valid_positions : cs[j - 1][s][e] = vp[j][s][p]]]]

\* torch.cat([initial_match, later_match], dim=1)
match(self, ids) ==
    [j \in 1..Len(flipped_ids(self, ids)) |->
        IF j = 1 THEN initial_match(self, ids) ELSE later_match(self, ids)[j]]

\* mutant of mask: each position is judged alone, a failed newer token masks nothing older
mask_per_position(self, ids) ==
    LET m == match(self, ids)
    IN  [j \in 1..Len(flipped_ids(self, ids)) |->
            [s \in 1..self.num_stop_strings |->
                [e \in 1..self.max_valid_end_lens |-> m[j][s][e]]]]

\* (~match).cumsum(dim=1) == 0
mask(self, ids) ==
    LET m == match(self, ids)
    IN  [j \in 1..Len(flipped_ids(self, ids)) |->
            [s \in 1..self.num_stop_strings |->
                [e \in 1..self.max_valid_end_lens |->
                    SumUpTo([i \in 1..j |-> IF m[i][s][e] THEN 0 ELSE 1], j) = 0]]]

\* torch.amax(cumsum * mask, dim=(1, -1)) >= self.target_lens[None, :]
string_matches(self, ids) ==
    LET cs == cumsum(self, ids)
        mk == mask(self, ids)
    IN  [s \in 1..self.num_stop_strings |->
            SetMax({cs[j][s][e] * (IF mk[j][s][e] THEN 1 ELSE 0) :
                        <<j, e>> \in (1..Len(flipped_ids(self, ids))) \X (1..self.max_valid_end_lens)})
                >= self.target_lens[s]]

\* F.embedding needs every id to be a row of the table; amax needs a non-empty dimension
CallRaises(self, ids) ==
    \/ \E j \in 1..Len(Window(self, ids)) : Window(self, ids)[j] \notin DOMAIN self.embedding_vec
    \/ ids = <<>>

\* torch.any(string_matches, dim=-1)
StopStringCriteria_call(self, ids) ==
    IF CallRaises(self, ids) THEN "IndexError"
    ELSE IF \E s \in 1..self.num_stop_strings : string_matches(self, ids)[s] THEN "True"
    ELSE "False"

---------------------------------------------------------------------------
(* Inputs *)

Alphabet == {"a", "b"}

\* strings over the alphabet with lo..hi characters
Strings(lo, hi) == UNION {[1..k -> Alphabet] : k \in lo..hi}

\* lists of 1..n elements of S
Lists(S, n) == UNION {[1..k -> S] : k \in 1..n}

NoDuplicates(l) == \A i, j \in 1..Len(l) : i # j => l[i] # l[j]

\* tokenizer.get_vocab(): tokens are the keys of a dict, ids its values; ids start
\* at base (0, or 1 as in the literal scenario of the specification)
VocabOf(token_list, base) ==
    [token_list |-> token_list, tok_indices |-> [k \in 1..Len(token_list) |-> base + k - 1]]

SmallVocabs == {VocabOf(l, 0) : l \in {l \in Lists(Strings(1, 2), 2) : NoDuplicates(l)}}

\* stop_strings as passed by the caller; the empty string is a possible argument.
\* One stop string of up to 3 characters, or two of which one has at most 1 character
\* or both have at most 2.
SmallStopLists ==
    {l \in Lists(Strings(0, 3), 2) :
        Len(l) = 2 => \/ Len(l[1]) <= 2 /\ Len(l[2]) <= 2
                      \/ Len(l[1]) <= 1
                      \/ Len(l[2]) <= 1}

StopVocabTokens ==
    << <<"s","t">>, <<"o","p">>, <<"s","t","o","p">>, <<"o","p","e","r","a">>, <<"s","t","o">>,
       <<"p","p","e","r">>, <<"l","a","s">>, <<"t","o","p","p","e","r">> , <<"a","t">>, <<"t","i","o","n">> >>

\* {"st":1,"op":2,"stop":3,"opera":4,"sto":5,"pper":6,"las":7,"topper":8,"at":9,"tion":10}
\* with the stop string "stop", and the same tokens numbered from 0
LiteralKey == MakeKey(StopVocabTokens, [k \in 1..10 |-> k], << <<"s","t","o","p">> >>)

ZeroBasedKey == MakeKey(StopVocabTokens, [k \in 1..10 |-> k - 1], << <<"s","t","o","p">> >>)

\* the "banana" example of the class docstring
BananaKey ==
    MakeKey(<< <<"b","a">>, <<"n","a","n","a">>, <<"b","a","n","a">> >>, <<0, 1, 2>>,
            << <<"b","a","n","a","n","a">> >>)

Keys ==
    {MakeKey(v.token_list, v.tok_indices, ss) : <<v, ss>> \in SmallVocabs \X SmallStopLists}
        \cup {LiteralKey, ZeroBasedKey, BananaKey}

\* longest token-id history of a row
MaxHist == 3

---------------------------------------------------------------------------
(* The sequential program: one StopStringCriteria(tokenizer, stop_strings), then a
   generation run that calls it after every generated token *)

Init ==
    /\ cache = <<>>
    /\ body_runs = <<>>
    /\ crit = NoCrit
    /\ req = MakeKey(<<>>, <<>>, <<>>)
    /\ raised = "none"
    /\ input_ids = <<>>
    /\ matched = <<>>
    /\ is_done = "none"
    /\ pc = <<>>
    /\ tkey = <<>>
    /\ tres = <<>>
    /\ inits = 0
    /\ warned = {}

\* StopStringCriteria.__init__ run to its end: the cached call, then the assignments
Construct(key) ==
    /\ req' = key
    /\ inits' = inits + 1
    /\ cache' = CacheAfter(cache, key)
    /\ body_runs' = IF CacheHit(cache, key) THEN body_runs ELSE CountRun(body_runs, key)
    /\ raised' = CachedCall(cache, key).raised
    /\ crit' = IF CachedCall(cache, key).raised = "none"
               THEN StopStringCriteria(key, CachedCall(cache, key))
               ELSE crit
    /\ input_ids' = <<>>
    /\ matched' = <<>>
    /\ is_done' = "none"
    /\ UNCHANGED <<pc, tkey, tres, warned>>

\* the generation loop appends one token of the vocabulary and calls the criterion
Generate(id, max_len) ==
    /\ crit # NoCrit
    /\ Len(input_ids) < max_len
    /\ input_ids' = Append(input_ids, id)
    /\ matched' = IF CallRaises(crit, input_ids') THEN <<>> ELSE string_matches(crit, input_ids')
    /\ is_done' = IF CallRaises(crit, input_ids') THEN "IndexError"
                  ELSE IF \E s \in 1..Len(matched') : matched'[s] THEN "True" ELSE "False"
    /\ UNCHANGED <<cache, body_runs, crit, req, raised, pc, tkey, tres, inits, warned>>

NewCriteria == \E key \in Keys : inits = 0 /\ Construct(key)

NextToken == \E k \in 1..Len(crit.tok_indices) : Generate(crit.tok_indices[k], MaxHist)

Next == NewCriteria \/ NextToken

Spec == Init /\ [][Next]_vars

---------------------------------------------------------------------------
(* Threads that construct StopStringCriteria at the same time.  The cached call is
   three steps: the wrapper's lookup, the wrapped function's body (no lock is held
   while it runs), and the wrapper's store. *)

NumThreads == 2

Threads == 1..NumThreads

\* constructor calls started in one run of the threaded program
MaxInits == 3

AB == <<"a", "b">>

BA == <<"b", "a">>

\* two keys that build and one whose build raises
ThreadKeys ==
    {MakeKey(<< <<"a">>, <<"b">> >>, <<0, 1>>, <<AB>>),
     MakeKey(<< <<"a">>, <<"b">> >>, <<0, 1>>, <<BA>>),
     MakeKey(<< <<"a">> >>, <<0>>, << <<"b">> >>)}

InitThreads ==
    /\ cache = <<>>
    /\ body_runs = <<>>
    /\ crit = NoCrit
    /\ req = MakeKey(<<>>, <<>>, <<>>)
    /\ raised = "none"
    /\ input_ids = <<>>
    /\ matched = <<>>
    /\ is_done = "none"
    /\ pc = [t \in Threads |-> "idle"]
    /\ tkey = [t \in Threads |-> MakeKey(<<>>, <<>>, <<>>)]
    /\ tres = [t \in Threads |-> Raise("none")]
    /\ inits = 0
    /\ warned = {}

\* __init__ up to the call of _stop_string_create_embedding_vec
Enter(t, key) ==
    /\ pc[t] = "idle"
    /\ inits < MaxInits
    /\ inits' = inits + 1
    /\ pc' = [pc EXCEPT ![t] = "lookup"]
    /\ tkey' = [tkey EXCEPT ![t] = key]
    /\ req' = key
    /\ UNCHANGED <<cache, body_runs, crit, raised, input_ids, matched, is_done, tres, warned>>

\* the wrapper looks the key up: a hit returns the stored result
Lookup(t) ==
    /\ pc[t] = "lookup"
    /\ IF CacheHit(cache, tkey[t])
       THEN /\ tres' = [tres EXCEPT ![t] = CachedResult(cache, tkey[t])]
            /\ cache' = Touch(cache, tkey[t])
            /\ pc' = [pc EXCEPT ![t] = "assign"]
       ELSE /\ pc' = [pc EXCEPT ![t] = "body"]
            /\ UNCHANGED <<tres, cache>>
    /\ UNCHANGED <<body_runs, crit, req, raised, input_ids, matched, is_done, tkey, inits, warned>>

\* a miss: the body of _stop_string_create_embedding_vec runs; an exception leaves __init__
RunBody(t) ==
    /\ pc[t] = "body"
    /\ body_runs' = CountRun(body_runs, tkey[t])
    /\ tres' = [tres EXCEPT ![t] = Body(tkey[t])]
    /\ pc' = [pc EXCEPT ![t] = IF Body(tkey[t]).raised = "none" THEN "store" ELSE "idle"]
    /\ raised' = IF Body(tkey[t]).raised = "none" THEN raised ELSE Body(tkey[t]).raised
    /\ UNCHANGED <<cache, crit, req, input_ids, matched, is_done, tkey, inits, warned>>

\* the wrapper stores the result the body returned
StoreResult(t) ==
    /\ pc[t] = "store"
    /\ cache' = Store(cache, tkey[t], tres[t])
    /\ pc' = [pc EXCEPT ![t] = "assign"]
    /\ UNCHANGED <<body_runs, crit, req, raised, input_ids, matched, is_done, tkey, tres, inits, warned>>

\* the rest of __init__: the instance's fields
Assign(t) ==
    /\ pc[t] = "assign"
    /\ crit' = StopStringCriteria(tkey[t], tres[t])
    /\ raised' = "none"
    /\ pc' = [pc EXCEPT ![t] = "idle"]
    /\ UNCHANGED <<cache, body_runs, req, input_ids, matched, is_done, tkey, tres, inits, warned>>

ThreadEnter == \E t \in Threads : \E key \in ThreadKeys : Enter(t, key)

ThreadLookup == \E t \in Threads : Lookup(t)

ThreadRunBody == \E t \in Threads : RunBody(t)

ThreadStoreResult == \E t \in Threads : StoreResult(t)

ThreadAssign == \E t \in Threads : Assign(t)

NextThreads == ThreadEnter \/ ThreadLookup \/ ThreadRunBody \/ ThreadStoreResult \/ ThreadAssign

SpecThreads == InitThreads /\ [][NextThreads]_vars

---------------------------------------------------------------------------
(* A long-running program that constructs criteria for many keys, one after the
   other, and evaluates the latest one: more keys than the cache holds *)

CacheVocabs == << VocabOf(<< <<"a">>, <<"b">> >>, 0), VocabOf(<< <<"b">>, <<"a">> >>, 0), VocabOf(<< <<"a">>, AB >>, 0) >>

CacheStopLists == << <<AB>>, <<BA>>, <<AB, BA>> >>

\* nine keys that build, and a tenth whose build raises; the program first uses them
\* in this order
CacheKeys ==
    [i \in 1..9 |-> MakeKey(CacheVocabs[((i - 1) \div 3) + 1].token_list,
                            CacheVocabs[((i - 1) \div 3) + 1].tok_indices,
                            CacheStopLists[((i - 1) % 3) + 1])]
        \o << MakeKey(<< <<"a">> >>, <<0>>, << <<"b">> >>) >>

\* constructor calls in one run of the program
MaxCacheInits == 10

\* tokens generated after a construction
MaxCacheHist == 1

\* the keys used so far are CacheKeys[1..Used]
Used == Cardinality(DOMAIN body_runs)

NextKey == \E i \in 1..Len(CacheKeys) : i <= Used + 1 /\ inits < MaxCacheInits /\ Construct(CacheKeys[i])

CacheNextToken == \E k \in 1..Len(crit.tok_indices) : Generate(crit.tok_indices[k], MaxCacheHist)

NextCache == NextKey \/ CacheNextToken

SpecCache == Init /\ [][NextCache]_vars

---------------------------------------------------------------------------
(* What the claims speak about: the text of a row, and where a stop string lies in it *)

\* the token of the vocabulary that has this id
TokenOf(self, id) == self.token_list[CHOOSE k \in 1..Len(self.tok_indices) : self.tok_indices[k] = id]

\* the concatenation of the texts of the row's tokens
Text(self, ids) == Concat([j \in 1..Len(ids) |-> TokenOf(self, ids[j])])

\* the row without its final token
Older(ids) == SubSeq(ids, 1, Len(ids) - 1)

\* text[q - len(s) : q] = s: an occurrence of s that ends after the q-th character
OccursEndingAt(text, s, q) ==
    /\ Len(s) <= q
    /\ q <= Len(text)
    /\ \A i \in 1..Len(s) : text[q - Len(s) + i] = s[i]

EndsWith(text, s) == OccursEndingAt(text, s, Len(text))

Contains(text, s) == \E q \in 0..Len(text) : OccursEndingAt(text, s, q)

\* an occurrence of s that ends at one of the characters of the final token
EndsInFinalToken(self, ids, s) ==
    \E q \in (Len(Text(self, Older(ids))) + 1)..Len(Text(self, ids)) :
        OccursEndingAt(Text(self, ids), s, q)

\* a __call__ has returned for the current row
Called == is_done \in {"True", "False"}

\* the constructor arguments are what the data model allows: a non-empty vocabulary
\* with ids 0..n-1 and a non-empty list of non-empty stop strings
WellFormed(key) ==
    /\ key.token_list # <<>>
    /\ \A k \in 1..Len(key.token_list) : key.token_list[k] # <<>> /\ key.tok_indices[k] = k - 1
    /\ key.stop_strings # <<>>
    /\ \A k \in 1..Len(key.stop_strings) : key.stop_strings[k] # <<>>

\* some sequence of one or two tokens of the vocabulary has a text that ends with a stop string
Completable(key) ==
    \E k \in 1..Len(key.stop_strings) : \E l \in Lists({key.token_list[i] : i \in 1..Len(key.token_list)}, 2) :
        EndsWith(Concat(l), key.stop_strings[k])

---------------------------------------------------------------------------
(* Claims *)

\* C1 (as claimed): for a non-empty vocabulary and non-empty stop strings, the criterion
\* is built, and it returns true for every row whose text ends with a stop string.
C1_ExactMatch ==
    (inits > 0 /\ WellFormed(req) /\ Completable(req)) =>
        /\ raised = "none"
        /\ (Called /\ \E k \in 1..Len(crit.stop_strings) : EndsWith(Text(crit, input_ids), crit.stop_strings[k]))
              => is_done = "True"

\* C2 (as claimed): a stop string is reported matched exactly when it occurs in the
\* row's text and that occurrence ends at the last character of the last token.
C2_EndsAtSequenceEnd ==
    Called => \A s \in 1..Len(matched) :
                  matched[s] <=> EndsWith(Text(crit, input_ids), crit.stop_strings[s])

\* C2 (amended): a stop string is reported matched exactly when it occurs in the row's
\* text and that occurrence ends at some character of the final token.
C2_EndsInsideFinalToken ==
    Called => \A s \in 1..Len(matched) :
                  matched[s] <=> EndsInFinalToken(crit, input_ids, crit.stop_strings[s])

\* C2 witness: a stop string reported matched although the text does not end with it
C2_Witness ==
    /\ Called
    /\ Len(input_ids) >= 2
    /\ \E s \in 1..Len(matched) :
          /\ matched[s]
          /\ ~EndsWith(Text(crit, input_ids), crit.stop_strings[s])
          /\ Len(crit.stop_strings[s]) >= 2

\* C3 (as claimed): when no occurrence of a stop string includes a character of the
\* final token, __call__ returns false for the row.
C3_NoRetroactiveMatch ==
    (Called /\ \A s \in 1..Len(crit.stop_strings) :
                  ~(crit.stop_strings[s] # <<>> /\ EndsInFinalToken(crit, input_ids, crit.stop_strings[s])))
        => is_done = "False"

\* the same statement for criteria all of whose stop strings are non-empty: it holds
NoRetroactiveMatchNonEmpty ==
    (Called /\ \A s \in 1..Len(crit.stop_strings) :
                  /\ crit.stop_strings[s] # <<>>
                  /\ ~EndsInFinalToken(crit, input_ids, crit.stop_strings[s]))
        => is_done = "False"

ContainsStopString(self, ids) ==
    \E s \in 1..Len(self.stop_strings) : Contains(Text(self, ids), self.stop_strings[s])

\* C4: the call made right after the token that first brings a stop string into the
\* text returns true.
C4_CannotBeMissed ==
    (Called /\ ContainsStopString(crit, input_ids) /\ ~ContainsStopString(crit, Older(input_ids)))
        => is_done = "True"

\* C4 witness: a stop string of two or more characters completed by the second or a
\* later token, and the call after that token returned true
C4_Witness ==
    /\ Called
    /\ Len(input_ids) >= 2
    /\ ContainsStopString(crit, input_ids)
    /\ ~ContainsStopString(crit, Older(input_ids))
    /\ \A s \in 1..Len(crit.stop_strings) : Len(crit.stop_strings[s]) >= 2
    /\ is_done = "True"

\* the end-overlap lengths the table holds for a token id and stop string s (-1 pads)
StoredEndLengths(self, id, s) ==
    {self.embedding_vec[id][self.max_valid_positions * self.num_stop_strings
                            + (s - 1) * self.max_valid_end_lens + e - 1] :
        e \in 1..self.max_valid_end_lens} \ {-1}

\* the first m characters of the token are the last m characters of the stop string
PrefixIsSuffix(token, stop_string, m) ==
    /\ m <= Len(token)
    /\ m <= Len(stop_string)
    /\ SubSeq(token, 1, m) = SubSeq(stop_string, Len(stop_string) - m + 1, Len(stop_string))

\* C5: every length at which a token's prefix equals the stop string's suffix is stored
\* for that pair; __call__ returns true when, for one stored length e of the final token,
\* the older tokens' text ends with the remaining first len(s) - e characters; "nana"
\* stores 2 and 4 for "banana", and ["ba","nana"], ["bana","nana"] give true.
C5_MultiAlignment ==
    crit # NoCrit =>
        /\ \A k \in 1..Len(crit.token_list) : \A s \in 1..Len(crit.stop_strings) :
              \A m \in 1..Len(crit.token_list[k]) :
                  PrefixIsSuffix(crit.token_list[k], crit.stop_strings[s], m)
                      => m \in StoredEndLengths(crit, crit.tok_indices[k], s)
        /\ Called =>
              \A s \in 1..Len(crit.stop_strings) :
                  \A e \in StoredEndLengths(crit, input_ids[Len(input_ids)], s) :
                      EndsWith(Text(crit, Older(input_ids)),
                               SubSeq(crit.stop_strings[s], 1, Len(crit.stop_strings[s]) - e))
                          => is_done = "True"
        /\ req = BananaKey =>
              /\ StoredEndLengths(crit, 1, 1) = {2, 4}
              /\ input_ids \in {<<0, 1>>, <<2, 1>>} => is_done = "True"

\* C5 witness: ["bana", "nana"] evaluated against "banana": the shorter of the two
\* stored overlaps of "nana" is the one that completes the stop string
C5_Witness == req = BananaKey /\ input_ids = <<2, 1>> /\ is_done = "True"

\* C6 (as claimed): the literal vocabulary with ids 1..10 and stop string "stop" builds,
\* and the listed id sequences give the listed results.
C6_LiteralScenario ==
    (inits > 0 /\ req = LiteralKey) =>
        /\ raised = "none"
        /\ crit # NoCrit
        /\ input_ids \in {<<1, 2>>, <<3>>, <<1, 4>>, <<5, 6>>, <<7, 8>>} => is_done = "True"
        /\ input_ids \in {<<3, 9>>, <<1, 2, 9>>, <<1, 4, 10>>} => is_done = "False"

\* C7 (as claimed): a stop-string list that contains an empty string makes the
\* constructor fail, and no criterion exists.
C7_EmptyStopStringRejected ==
    (inits > 0 /\ \E k \in 1..Len(req.stop_strings) : req.stop_strings[k] = <<>>) =>
        /\ raised # "none"
        /\ crit = NoCrit

\* no token of the vocabulary has a valid alignment with the stop string
Unreachable(key, stop_string) ==
    \A k \in 1..Len(key.token_list) :
        /\ matching_positions(key.token_list[k], stop_string) = <<>>
        /\ possible_end_lengths(key.token_list[k], stop_string) = <<>>

\* C8 (as claimed): with a stop string that no token aligns with, the table is still
\* built, that stop string is never matched and the others are still detected.
C8_UnreachableStopString ==
    (inits > 0 /\ WellFormed(req)
       /\ \E k \in 1..Len(req.stop_strings) : Unreachable(req, req.stop_strings[k])) =>
        /\ raised = "none"
        /\ Called => \A s \in 1..Len(matched) :
              /\ Unreachable(req, crit.stop_strings[s]) => ~matched[s]
              /\ EndsWith(Text(crit, input_ids), crit.stop_strings[s]) => matched[s]

\* C9 (as claimed): the body of _stop_string_create_embedding_vec runs at most once
\* for a key whose table can be built, however many threads construct with it (the
\* threads use fewer keys than the cache holds, so nothing is evicted).
C9_SingleBuild ==
    \A key \in DOMAIN body_runs : Body(key).raised = "none" => body_runs[key] <= 1

\* the key an instance was constructed with
KeyOf(self) == MakeKey(self.token_list, self.tok_indices, self.stop_strings)

\* what _stop_string_create_embedding_vec returns for each key of CacheKeys when it
\* is called without the cache
UncachedBuilds == [i \in 1..Len(CacheKeys) |-> Body(CacheKeys[i])]

Uncached(key) ==
    IF \E i \in 1..Len(CacheKeys) : CacheKeys[i] = key
    THEN UncachedBuilds[CHOOSE i \in 1..Len(CacheKeys) : CacheKeys[i] = key]
    ELSE Body(key)

\* C10: the table and the two widths an instance holds are those an uncached build from
\* its own key returns, every cache entry holds the uncached build of its key, and each
\* result of __call__ is the result of the instance rebuilt without the cache.
C10_CacheTransparent ==
    /\ Len(cache) <= CacheSize
    /\ \A i \in 1..Len(cache) : cache[i].result = Uncached(cache[i].key)
    /\ crit # NoCrit =>
          /\ Uncached(KeyOf(crit)).raised = "none"
          /\ crit.embedding_vec = Uncached(KeyOf(crit)).gather_vec
          /\ crit.max_valid_positions = Uncached(KeyOf(crit)).max_valid_positions
          /\ crit.max_valid_end_lens = Uncached(KeyOf(crit)).max_valid_end_lens
          /\ Called => is_done = StopStringCriteria_call(StopStringCriteria(KeyOf(crit), Uncached(KeyOf(crit))), input_ids)

\* C10 witness: an instance whose key was evicted and built a second time, evaluated
\* while the cache is full
C10_Witness ==
    /\ crit # NoCrit
    /\ RunsOf(body_runs, KeyOf(crit)) >= 2
    /\ Len(cache) = CacheSize
    /\ Called

---------------------------------------------------------------------------
(* MaxLengthCriteria, called by a generation loop on a batch.  Here input_ids is the
   whole tensor, a sequence of rows of one length, and is_done the returned tensor
   (<<>> before the first call). *)

\* Optional[int]: None is the empty tuple, an int n the tuple <<n>>
None == <<>>

\* MaxLengthCriteria.__init__
MaxLengthCriteria(max_length, max_position_embeddings) ==
    [max_length |-> max_length, max_position_embeddings |-> max_position_embeddings]

\* input_ids.shape[-1]
cur_len(ids) == Len(ids[1])

\* a comparison that lets one more token through
MaxLength_is_done_strict(self, ids) == cur_len(ids) > self.max_length

\* is_done = cur_len >= self.max_length
MaxLength_is_done(self, ids) == cur_len(ids) >= self.max_length

\* the condition of logger.warning_once, and its message (named by the limit the
\* f-string holds)
MaxLength_warns(self, ids) ==
    /\ self.max_position_embeddings # None
    /\ ~MaxLength_is_done(self, ids)
    /\ cur_len(ids) >= self.max_position_embeddings[1]

MaxLength_message(self) == self.max_position_embeddings[1]

\* torch.full((input_ids.shape[0],), is_done)
MaxLengthCriteria_call(self, ids) == [r \in 1..Len(ids) |-> MaxLength_is_done(self, ids)]

\* rows of a batch
MaxBatch == 2

\* tokens of a row, prompt included
MaxTokens == 3

\* tokens of the prompt
MaxPrompt == 1

TokenIds == {0, 1}

\* tensors of shape (b, n)
Batches(b, n) == [1..b -> [1..n -> TokenIds]]

MaxLengths == 0..(MaxTokens + 1)

PositionLimits == {None} \cup {<<n>> : n \in 1..MaxTokens}

InitMaxLength ==
    /\ cache = <<>>
    /\ body_runs = <<>>
    /\ crit = NoCrit
    /\ req = MakeKey(<<>>, <<>>, <<>>)
    /\ raised = "none"
    /\ input_ids = <<>>
    /\ matched = <<>>
    /\ is_done = <<>>
    /\ pc = <<>>
    /\ tkey = <<>>
    /\ tres = <<>>
    /\ inits = 0
    /\ warned = {}

\* MaxLengthCriteria(max_length, max_position_embeddings), and the prompt of the batch
NewMaxLength(max_length, max_position_embeddings, prompt) ==
    /\ inits = 0
    /\ inits' = 1
    /\ crit' = MaxLengthCriteria(max_length, max_position_embeddings)
    /\ input_ids' = prompt
    /\ UNCHANGED <<cache, body_runs, req, raised, matched, is_done, pc, tkey, tres, warned>>

\* the generation loop appends one token to every row and calls the criterion
MaxLengthStep(next_tokens) ==
    /\ inits = 1
    /\ cur_len(input_ids) < MaxTokens
    /\ input_ids' = [r \in 1..Len(input_ids) |-> Append(input_ids[r], next_tokens[r])]
    /\ is_done' = MaxLengthCriteria_call(crit, input_ids')
    /\ warned' = IF MaxLength_warns(crit, input_ids')
                 THEN warned \cup {MaxLength_message(crit)}
                 ELSE warned
    /\ UNCHANGED <<cache, body_runs, crit, req, raised, matched, pc, tkey, tres, inits>>

MaxLengthNew ==
    \E max_length \in MaxLengths : \E max_position_embeddings \in PositionLimits :
        \E b \in 1..MaxBatch : \E n \in 0..MaxPrompt : \E prompt \in Batches(b, n) :
            NewMaxLength(max_length, max_position_embeddings, prompt)

MaxLengthNextToken == \E next_tokens \in Batches(Len(input_ids), 1) :
    MaxLengthStep([r \in 1..Len(input_ids) |-> next_tokens[r][1]])

NextMaxLength == MaxLengthNew \/ MaxLengthNextToken

SpecMaxLength == InitMaxLength /\ [][NextMaxLength]_vars

\* MaxLengthCriteria.__call__ has returned for the current batch
MaxLengthCalled == Len(is_done) > 0

---------------------------------------------------------------------------
(* The matcher characterised by occurrences and the characters they cover *)

\* text[p - 1 : p - 1 + len(s)] = s: an occurrence of s whose first character is the
\* p-th character of the text
OccursAt(text, s, p) ==
    /\ p >= 1
    /\ p + Len(s) - 1 <= Len(text)
    /\ \A i \in 1..Len(s) : text[p + i - 1] = s[i]

\* the places in the text of the characters of the final token
FinalTokenChars(self, ids) == (Len(Text(self, Older(ids))) + 1)..Len(Text(self, ids))

\* the places in the text where a token starts
TokenStarts(self, ids) == {Len(Text(self, SubSeq(ids, 1, j))) + 1 : j \in 0..(Len(ids) - 1)}

\* an occurrence of s that contains at least one character of the final token
CoversFinalTokenChar(self, ids, s) ==
    \E p \in 1..Len(Text(self, ids)) :
        /\ OccursAt(Text(self, ids), s, p)
        /\ (p..(p + Len(s) - 1)) \cap FinalTokenChars(self, ids) # {}

\* C12: for a criterion constructed from a well-formed vocabulary and non-empty stop
\* strings, and a row of any length, __call__ returns true if and only if some stop
\* string has an occurrence in the text of the row that contains at least one
\* character of the final token; rows longer than the window of the last K tokens
\* are among the rows
C12_ExactCharacterisation ==
    (WellFormed(req) /\ Called) =>
        (is_done = "True" <=>
            \E s \in 1..Len(crit.stop_strings) :
                CoversFinalTokenChar(crit, input_ids, crit.stop_strings[s]))

\* a row longer than the window is judged true although every occurrence that covers
\* a character of the final token starts inside an older token and ends before the
\* end of the final token
C12_Witness ==
    /\ WellFormed(req)
    /\ Called
    /\ Len(input_ids) > crit.maximum_token_len
    /\ is_done = "True"
    /\ \A s \in 1..Len(crit.stop_strings) : \A p \in 1..Len(Text(crit, input_ids)) :
          (/\ OccursAt(Text(crit, input_ids), crit.stop_strings[s], p)
           /\ (p..(p + Len(crit.stop_strings[s]) - 1)) \cap FinalTokenChars(crit, input_ids) # {})
            => /\ p \notin TokenStarts(crit, input_ids)
               /\ p + Len(crit.stop_strings[s]) - 1 < Len(Text(crit, input_ids))

---------------------------------------------------------------------------
(* Vocabularies whose tokens carry tokenizer markers: a word-start marker (U+2581
   of SentencePiece, U+0120 of byte-level BPE) or the continuation marker "##" *)

MarkerTokens ==
    {<<"U+2581", "a">>, <<"U+0120", "a">>, <<"#", "#", "a">>, <<"a">>, <<"b">>}

MarkerVocabs == {VocabOf(l, 0) : l \in {l \in [1..2 -> MarkerTokens] : NoDuplicates(l)}}

\* "aa", " a", "ba", "b a"
MarkerStopLists == { << <<"a", "a">> >>, << <<" ", "a">> >>, << <<"b", "a">> >>, << <<"b", " ", "a">> >> }

MarkerKeys ==
    {MakeKey(v.token_list, v.tok_indices, ss) : <<v, ss>> \in MarkerVocabs \X MarkerStopLists}

NewMarkerCriteria == \E key \in MarkerKeys : inits = 0 /\ Construct(key)

MarkerNextToken == \E k \in 1..Len(crit.tok_indices) : Generate(crit.tok_indices[k], MaxHist)

NextMarkers == NewMarkerCriteria \/ MarkerNextToken

SpecMarkers == Init /\ [][NextMarkers]_vars

\* the normalisation the specification describes: a leading word-start marker becomes
\* one space, a leading "##" is removed
Normalised(token) ==
    IF token[1] \in {"U+2581", "U+0120"} THEN <<" ">> \o Tail(token)
    ELSE IF Len(token) >= 2 /\ token[1] = "#" /\ token[2] = "#" THEN SubSeq(token, 3, Len(token))
    ELSE token

\* the table of a vocabulary whose tokens are written in their normalised form
NormalisedBuild(key) ==
    Body(MakeKey([k \in 1..Len(key.token_list) |-> Normalised(key.token_list[k])],
                 key.tok_indices, key.stop_strings))

HasContinuationToken(key) ==
    \E k \in 1..Len(key.token_list) : key.token_list[k] # Normalised(key.token_list[k])
                                       /\ key.token_list[k][1] = "#"

\* the constructor has returned an instance
Constructed == inits > 0 /\ raised = "none"

\* C13: every token is aligned as its normalised form (word-start marker replaced by
\* a space, "##" removed) and the token_length of its table row is the length of the
\* normalised form: the table is the one built from the normalised tokens
C13_TokenNormalisation ==
    Constructed =>
        /\ NormalisedBuild(req).raised = "none"
        /\ crit.embedding_vec = NormalisedBuild(req).gather_vec

\* the same statement for vocabularies without a "##" token: it holds
WordStartNormalised ==
    (Constructed /\ ~HasContinuationToken(req)) =>
        /\ NormalisedBuild(req).raised = "none"
        /\ crit.embedding_vec = NormalisedBuild(req).gather_vec

\* the text of the row when every token is read in its normalised form contains a stop
\* string that ends in the final token, and __call__ has returned false
ContinuationMatchMissed ==
    /\ Called
    /\ is_done = "False"
    /\ LET norm == [crit EXCEPT !.token_list = [k \in 1..Len(crit.token_list) |-> Normalised(crit.token_list[k])]]
       IN  \E s \in 1..Len(crit.stop_strings) : EndsInFinalToken(norm, input_ids, crit.stop_strings[s])

=============================================================================
